---- MODULE Spec2Model ----
(***************************************************************************)
(* The asynchronous image-generation pipeline of the chat application:     *)
(* the generateImage tool (model fallback orchestrator), the two HTTP      *)
(* image-generation routes, and generateAliyunImage with its nested        *)
(* attemptGeneration / makeAPIRequest (submit, poll, materialize).         *)
(*                                                                         *)
(* One action is one network call of the code together with the            *)
(* synchronous code that follows it, or one synchronous hand-over between  *)
(* two functions (a return to the caller).  The remote service is the      *)
(* environment: every response it can give is drawn with \E.               *)
(***************************************************************************)
EXTENDS Integers, Sequences, FiniteSets, TLC

(***************************************************************************)
(* Bounds of the model.                                                    *)
(***************************************************************************)
\* env.RETRY_COUNT is drawn from 0..MaxEnvRetry (and NaN, see EnvRetryCounts)
MaxEnvRetry == 2
\* Math.floor(Math.random() * 10000) is drawn from 0..MaxSeed
MaxSeed == 1

(***************************************************************************)
(* Program constants.                                                      *)
(***************************************************************************)
MAX_INTERNAL_ERROR_RETRIES == 3
WANX_MAX_RETRIES == 15
WANX_REQUEST_TIMEOUT == 300000
DEFAULT_RETRY_COUNT == 10
DEFAULT_REQUEST_TIMEOUT == 60000
FALLBACK_MAX_RETRIES == 10
FALLBACK_REQUEST_TIMEOUT == 60000
ENV_REQUEST_TIMEOUT == 60000
DEFAULT_DIMENSION == 1024
BACKOFF_BASE_MS == 1000
BACKOFF_NUM == 3
BACKOFF_DEN == 2
\* the number of characters of the placeholder payload, and the length below
\* which the route takes image data for a placeholder
PLACEHOLDER_LENGTH == 864
SHORT_IMAGE_LENGTH == 100

(***************************************************************************)
(* JavaScript numbers that may be NaN (Number.parseInt of a bad string).   *)
(* Every comparison with NaN is false; arithmetic on NaN gives NaN.        *)
(***************************************************************************)
Num(n) == [nan |-> FALSE, v |-> n]
NaN == [nan |-> TRUE, v |-> 0]
JsLt(a, b) == ~a.nan /\ ~b.nan /\ a.v < b.v
JsMinus(a, n) == IF a.nan THEN NaN ELSE Num(a.v - n)

(***************************************************************************)
(* Model identifiers.  An id is its leading characters (prefix) and the    *)
(* rest, so that startsWith and toLowerCase are computed, not assumed.     *)
(***************************************************************************)
ModelId(p, r) == [prefix |-> p, rest |-> r]
NoModel == ModelId("", "")
FluxSchnell == ModelId("flux", "-schnell")
WanxTurbo == ModelId("wanx", "2.1-t2i-turbo")
WanxPlus == ModelId("wanx", "2.1-t2i-plus")
WanxLiteral == ModelId("Wanx", "")
CustomModel == ModelId("sdxl", "-base")

\* a lower-casing that leaves the text as it is
toLowerCase_identity(s) == s

toLowerCase(s) ==
    IF s \in {"Wanx", "WANX", "wAnX"} THEN "wanx"
    ELSE IF s \in {"Flux", "FLUX"} THEN "flux"
    ELSE IF s = "SDXL" THEN "sdxl"
    ELSE s
startsWith(id, p) == id.prefix = p

(***************************************************************************)
(* Messages are sequences of text fragments; includes() looks for a        *)
(* fragment.                                                               *)
(***************************************************************************)
TensorText == "Expected all tensors to be on the same device"
includes(msg, needle) == \E i \in 1..Len(msg) : msg[i] = needle
TensorMessage == <<"RuntimeError: ", TensorText, ", but found cuda:0 and cpu">>
AlgoOtherMessage == <<"Algorithm failed: ", "content inspection rejected the prompt">>

(***************************************************************************)
(* Values read from the environment: undefined, a number (NaN included)    *)
(* or a string of characters.                                              *)
(***************************************************************************)
Undefined == [type |-> "undefined", num |-> NaN, text |-> <<>>]
NumberValue(x) == [type |-> "number", num |-> x, text |-> <<>>]
StringValue(t) == [type |-> "string", num |-> NaN, text |-> t]

DigitChars == {"0", "1", "2", "3"}
DigitOf(c) == CASE c = "0" -> 0 [] c = "1" -> 1 [] c = "2" -> 2 [] OTHER -> 3

RECURSIVE DigitsValue(_)
DigitsValue(t) ==
    IF t = <<>> THEN 0
    ELSE 10 * DigitsValue(SubSeq(t, 1, Len(t) - 1)) + DigitOf(t[Len(t)])

\* Number(text): the empty string is 0, a string of digits its value,
\* anything else NaN
ToNumber(t) ==
    IF \A i \in 1..Len(t) : t[i] \in DigitChars THEN Num(DigitsValue(t)) ELSE NaN

getEnvNumber(value, fallback) ==
    IF value.type = "undefined" THEN Num(fallback)
    ELSE IF value.type = "number" THEN value.num
    ELSE LET parsed == ToNumber(value.text)
         IN  IF parsed.nan THEN Num(fallback) ELSE parsed

(***************************************************************************)
(* Model configuration: the registry and the Aliyun policy.                *)
(***************************************************************************)
Providers == {"aliyun", "openai", "openrouter", "anthropic", "google", "default"}

\* getAliyunModelConfig under the settings env.RETRY_COUNT = retryCount and
\* env.REQUEST_TIMEOUT = requestTimeout
AliyunModelConfig(modelId, retryCount, requestTimeout) ==
    LET modelIdLower == toLowerCase(modelId.prefix)
        defaultConfig ==
            [maxRetries |-> getEnvNumber(retryCount, DEFAULT_RETRY_COUNT),
             requestTimeout |->
                 getEnvNumber(requestTimeout, DEFAULT_REQUEST_TIMEOUT),
             type |-> "default", provider |-> "aliyun"]
    IN  IF modelIdLower = "wanx"
        THEN [maxRetries |-> Num(WANX_MAX_RETRIES),
              requestTimeout |-> Num(WANX_REQUEST_TIMEOUT),
              type |-> "high_quality", provider |-> "aliyun"]
        ELSE IF modelIdLower = "flux"
        THEN [defaultConfig EXCEPT !.type = "fast"]
        ELSE defaultConfig

getAliyunModelConfig(modelId, retryCount) ==
    AliyunModelConfig(modelId, retryCount,
                      NumberValue(Num(ENV_REQUEST_TIMEOUT)))

\* the functions a provider's module may register: the Aliyun policy, or some
\* other function of the model id
NotRegistered == "undefined"
ConfigFns == {"getAliyunModelConfig", "fixedConfig"}
fixedConfig(modelId) ==
    [maxRetries |-> Num(1), requestTimeout |-> Num(1000), type |-> "balanced",
     provider |-> "openai"]
ApplyConfigFn(fn, modelId, retryCount) ==
    IF fn = "getAliyunModelConfig"
    THEN getAliyunModelConfig(modelId, retryCount)
    ELSE fixedConfig(modelId)

\* modelConfigProviders after the providers' modules were loaded: only the
\* Aliyun provider registers a function
modelConfigProviders ==
    [p \in Providers |->
        IF p = "aliyun" THEN "getAliyunModelConfig" ELSE NotRegistered]

\* a registration that keeps the function a provider already has
registerModelConfigProvider_keepsFirst(providers, provider, configFn) ==
    IF providers[provider] = NotRegistered
    THEN [providers EXCEPT ![provider] = configFn]
    ELSE providers

registerModelConfigProvider(providers, provider, configFn) ==
    [providers EXCEPT ![provider] = configFn]

\* getModelConfig reading the registry `providers`
lookupModelConfig(providers, modelId, provider, retryCount) ==
    IF providers[provider] # NotRegistered
    THEN ApplyConfigFn(providers[provider], modelId, retryCount)
    ELSE [maxRetries |-> Num(FALLBACK_MAX_RETRIES),
          requestTimeout |-> Num(FALLBACK_REQUEST_TIMEOUT),
          type |-> "default", provider |-> provider]

getModelConfig(modelId, provider, retryCount) ==
    lookupModelConfig(modelConfigProviders, modelId, provider, retryCount)

(***************************************************************************)
(* Results.                                                                *)
(***************************************************************************)
NoError == [code |-> "", message |-> <<>>]
ErrorInfo(c, m) == [code |-> c, message |-> m]
\* image data is a text kept as the sequence of its fragments; <<>> stands for
\* null, undefined and the empty string
NoImage == <<>>
PLACEHOLDER_PNG == <<"iVBORw0KGgo-placeholder">>
BASE64_PNG == <<"<base64 of the downloaded image>">>
\* `data:image/png;base64,${base64Image}`
DATA_URL_PNG == <<"data:image", "/png;base64,">> \o BASE64_PNG

\* imageData.replace(/^data:image\/\w+;base64,/, '')
StripDataUrlPrefix(d) ==
    IF Len(d) >= 2 /\ d[1] = "data:image" /\ d[2] = "/png;base64,"
    THEN SubSeq(d, 3, Len(d))
    ELSE d

\* a placeholder that carries errorInfo only when there is a message
getPlaceholderImage_needsMessage(errorCode, errorMessage, model) ==
    [imageData |-> PLACEHOLDER_PNG,
     errorInfo |-> IF errorMessage # <<>>
                   THEN ErrorInfo(errorCode, errorMessage)
                   ELSE NoError,
     model |-> model]

getPlaceholderImage(errorCode, errorMessage, model) ==
    [imageData |-> PLACEHOLDER_PNG,
     errorInfo |-> IF errorCode # ""
                   THEN ErrorInfo(errorCode, IF errorMessage = <<>>
                                             THEN <<"Unknown error">>
                                             ELSE errorMessage)
                   ELSE NoError,
     model |-> model]

NoResult == [imageData |-> NoImage, errorInfo |-> NoError, model |-> NoModel]

\* a signature that looks at the error code only
isTensorError_codeOnly(e) == e.code = "InternalError.Algo"

\* the transient tensor-device fault signature
isTensorError(e) ==
    e.code = "InternalError.Algo" /\ includes(e.message, TensorText)

(***************************************************************************)
(* Size validation of the generateImage tool.                              *)
(***************************************************************************)
availableSizes ==
    { <<1024, 1024>>, <<768, 1024>>, <<1024, 768>>, <<768, 512>>,
      <<512, 768>>, <<1024, 576>>, <<576, 1024>>, <<1280, 720>>,
      <<720, 1280>>, <<960, 960>>, <<1088, 832>>, <<832, 1088>> }

\* width || 1024: an absent value and 0 both give the default
OrDefault(d) == IF d = 0 THEN DEFAULT_DIMENSION ELSE d

\* a validation that compares the values as they were sent
isValidSize_noDefault(width, height) == << width, height >> \in availableSizes

isValidSize(width, height) ==
    \E size \in availableSizes :
        size[1] = OrDefault(width) /\ size[2] = OrDefault(height)

(***************************************************************************)
(* The candidate list of the generateImage tool.                           *)
(***************************************************************************)
\* a candidate list that falls back to the defaults after a named model
ModelsToTry_namedThenDefaults(model, flux, wanxList) ==
    IF model # NoModel
    THEN <<model, flux>> \o wanxList
    ELSE <<flux>> \o wanxList

ModelsToTry(model, fluxModel, wanxList) ==
    IF model # NoModel
    THEN IF model = WanxLiteral /\ Len(wanxList) > 0
         THEN <<wanxList[1]>>
         ELSE <<model>>
    ELSE <<fluxModel>> \o wanxList

(***************************************************************************)
(* Exponential backoff: 1000 * Math.pow(1.5, retries) milliseconds, kept   *)
(* as the exact fraction base * num / den.                                 *)
(***************************************************************************)
RECURSIVE Pow(_, _)
Pow(b, n) == IF n = 0 THEN 1 ELSE b * Pow(b, n - 1)

\* a backoff that grows linearly
Backoff_linear(n) == [base |-> BACKOFF_BASE_MS, num |-> n + 1, den |-> 1]

Backoff(n) ==
    [base |-> BACKOFF_BASE_MS, num |-> Pow(BACKOFF_NUM, n), den |-> Pow(BACKOFF_DEN, n)]

\* a < b for two waits with the same base whose denominators are powers
\* of BACKOFF_DEN dividing one another
WaitLess(a, b) ==
    IF a.den <= b.den
    THEN a.num * (b.den \div a.den) < b.num
    ELSE a.num < b.num * (a.den \div b.den)

(***************************************************************************)
(* What the remote service can answer.                                     *)
(***************************************************************************)
\* error codes and messages the service reports (on rejection or FAILED)
ProviderErrors ==
    { ErrorInfo("InternalError.Algo", TensorMessage),
      ErrorInfo("InternalError.Algo", AlgoOtherMessage),
      ErrorInfo("InternalError.Timeout", TensorMessage) }

\* answers to the submission POST: a body (with or without code, with or
\* without output.task_id), an HTTP error status, or a network error
SubmitBody(e, hasTaskId) ==
    [kind |-> "body", error |-> e, hasTaskId |-> hasTaskId, status |-> 200,
     errCode |-> ""]
SubmitHttpError(status, e) ==
    [kind |-> "http", error |-> e, hasTaskId |-> FALSE, status |-> status,
     errCode |-> ""]
SubmitNetworkError(c, m) ==
    [kind |-> "network", error |-> ErrorInfo("", m), hasTaskId |-> FALSE,
     status |-> 0, errCode |-> c]

SubmitResponses ==
    { SubmitBody(NoError, b) : b \in BOOLEAN }
    \cup { SubmitBody(e, FALSE) : e \in ProviderErrors }
    \* a rejection whose body has a code and no message
    \cup { SubmitBody(ErrorInfo("Throttling", <<>>), FALSE) }
    \cup { SubmitHttpError(st, NoError) : st \in {400, 500} }
    \cup { SubmitNetworkError("ECONNABORTED", <<"timeout exceeded">>),
           SubmitNetworkError("", <<>>) }

\* answers to a status GET: output.task_status (possibly missing), output.code
\* and output.message, output.results[0].url (possibly missing), or a
\* transport error thrown by the call
StatusBody(ts, e, hasUrl) ==
    [kind |-> "body", task_status |-> ts, error |-> e, hasUrl |-> hasUrl]
StatusTransportError ==
    [kind |-> "error", task_status |-> "", error |-> NoError, hasUrl |-> FALSE]
NoResponse ==
    [kind |-> "null", task_status |-> "", error |-> NoError, hasUrl |-> FALSE]

StatusResponses ==
    { StatusBody(ts, NoError, FALSE) : ts \in {"PENDING", "RUNNING", "CANCELED", ""} }
    \cup { StatusBody("SUCCEEDED", NoError, u) : u \in BOOLEAN }
    \cup { StatusBody("FAILED", e, FALSE) : e \in ProviderErrors \cup {NoError} }
    \cup { StatusTransportError }

(***************************************************************************)
(* Inputs of a request.                                                    *)
(***************************************************************************)
\* requested <<width, height>>; 0 is an absent value
SizeInputs == { <<0, 0>>, <<1024, 1024>>, <<768, 768>>, <<999, 0>> }
ModelInputs == { NoModel, FluxSchnell, WanxTurbo, WanxLiteral, CustomModel }
Seeds == 0..MaxSeed

\* env.RETRY_COUNT = Number.parseInt(process.env.RETRY_COUNT || '3')
EnvRetryCounts == { Num(n) : n \in 0..MaxEnvRetry } \cup { NaN }
\* env.ALIYUN_FLUX_MODEL and env.ALIYUN_WANX_MODELS
fluxModel == FluxSchnell
WanxConfigs == { <<>>, <<WanxTurbo>>, <<WanxTurbo, WanxPlus>> }

(***************************************************************************)
(* State.                                                                  *)
(***************************************************************************)
VARIABLES
    envRetryCount,   \* env.RETRY_COUNT
    wanxModels,      \* env.ALIYUN_WANX_MODELS
    entry,           \* the entry point that accepted the request
    requestSize,     \* the requested <<width, height>>, absent values defaulted
    pc,              \* where the request's coroutine stands
    modelsToTry,     \* generateImage tool: the candidate list
    idx,             \* generateImage tool: position of the for loop
    allErrors,       \* generateImage tool: the per-model errors
    response,        \* what is finally returned to the user
    params,          \* generateAliyunImage: its parameter
    internalErrorRetryCount,
    seed,            \* attemptGeneration: the seed of the request body
    job,             \* makeAPIRequest: the locals of its poll loop
    result,          \* the result attemptGeneration returned
    \* history of the run, read by the properties only
    submits,         \* submissions posted by this generateAliyunImage call
    polls,           \* status queries issued for the job being polled
    waits,           \* <<wait before the previous query, wait before the next>>
    netCalls,        \* TRUE once the request has issued any network call
    hadJob,          \* the last submission created a job
    reported,        \* the task_status the job's last response reported
    budgetLeft,      \* fewer than maxRetries queries were issued for the job
    lateQueries,     \* status queries issued after a terminal task_status
    downloads,       \* downloads issued for the job
    phases,          \* the phases the current attempt went through
    trail,           \* how far the job's status responses, from the first on,
                     \* ran through PENDING, RUNNING, SUCCEEDED with URL
    attempted,       \* the models submitted, in order of first submission
    \* two requests served at once by one server process
    registry,        \* model-config.ts: modelConfigProviders
    store,           \* the cells of the counters and the error list, by scope
    calls,           \* each request's position and remaining locals
    alone,           \* each request served alone, given the same responses
    \* the functions called on their own
    unit,            \* the last call: the function, its arguments, its result
    registrations    \* the calls of registerModelConfigProvider, in order

requestState ==
    << envRetryCount, wanxModels, entry, requestSize, pc, modelsToTry, idx,
       allErrors, response, params, internalErrorRetryCount, seed, job,
       result, submits, polls, waits, netCalls, hadJob, reported,
       budgetLeft, lateQueries, downloads, phases, trail, attempted >>
concurrent == << registry, store, calls, alone >>
units == << unit, registrations >>
vars == << requestState, concurrent, units >>

config == << envRetryCount, wanxModels >>
toolVars == << modelsToTry, idx, allErrors >>
jobHistory == << polls, waits, hadJob, reported, budgetLeft,
                 lateQueries, downloads >>

NoJob ==
    [taskId |-> FALSE, modelName |-> NoModel, retries |-> 0, maxRetries |-> Num(0),
     taskStatus |-> "", taskResult |-> FALSE, errorCode |-> "",
     errorMessage |-> <<>>, lastApiResponse |-> NoResponse]
NoWait == [base |-> 0, num |-> 0, den |-> 1]
\* params.seed: absent, or the number given
NoSeed == [given |-> FALSE, v |-> 0]
GivenSeed(n) == [given |-> TRUE, v |-> n]
NoParams == [width |-> 0, height |-> 0, model |-> NoModel, seed |-> NoSeed]
NoResponseYet ==
    [status |-> 0, imageData |-> NoImage, success |-> FALSE, message |-> <<>>,
     errorInfo |-> NoError, model |-> NoModel, isPlaceholder |-> FALSE,
     allErrors |-> <<>>]

\* the two requests, and the scopes a variable can be declared in: the
\* module's (one cell for the process) or a call's (one cell for each request)
Requests == {1, 2}
ModuleScope == 0
Scopes == {ModuleScope} \cup Requests

\* let internalErrorRetryCount = 0 is a statement of generateAliyunImage's body
CounterScope_module(i) == ModuleScope

CounterScope(i) == i
\* let retries = 0 is a statement of makeAPIRequest's body
RetriesScope(i) == i
\* const allErrors = [] is a statement of execute's body
ErrorsScope(i) == i

\* modelConfigProviders as the module's initialiser leaves it
NoProviders == [p \in Providers |-> NotRegistered]
EmptyStore ==
    [internalErrorRetryCount |-> [sc \in Scopes |-> 0],
     retries |-> [sc \in Scopes |-> 0],
     allErrors |-> [sc \in Scopes |-> <<>>]]
IdleCall ==
    [pc |-> "idle", models |-> <<>>, idx |-> 0, job |-> NoJob,
     result |-> NoResult, response |-> NoResponseYet]
IdleRun ==
    [pc |-> "idle", models |-> <<>>, idx |-> 0, job |-> NoJob,
     result |-> NoResult, response |-> NoResponseYet,
     internalErrorRetryCount |-> 0, retries |-> 0, allErrors |-> <<>>]
NoRequests ==
    /\ store = EmptyStore
    /\ calls = [i \in Requests |-> IdleCall]
    /\ alone = [i \in Requests |-> IdleRun]

NoConfig ==
    [maxRetries |-> Num(0), requestTimeout |-> Num(0), type |-> "",
     provider |-> ""]
NoUnit ==
    [fn |-> "none", modelId |-> NoModel, provider |-> "",
     retryCount |-> Undefined, requestTimeout |-> Undefined,
     value |-> Undefined, fallback |-> 0, attempt |-> 0, seed |-> NoSeed,
     drawn |-> 0, config |-> NoConfig, number |-> Num(0)]
NoCalls ==
    /\ unit = NoUnit
    /\ registrations = <<>>

InitRequest ==
    /\ envRetryCount \in EnvRetryCounts
    /\ wanxModels \in WanxConfigs
    /\ entry = "none"
    /\ requestSize = << 0, 0 >>
    /\ pc = "idle"
    /\ modelsToTry = <<>>
    /\ idx = 0
    /\ allErrors = <<>>
    /\ response = NoResponseYet
    /\ params = NoParams
    /\ internalErrorRetryCount = 0
    /\ seed = 0
    /\ job = NoJob
    /\ result = NoResult
    /\ submits = 0
    /\ polls = 0
    /\ waits = << NoWait, NoWait >>
    /\ netCalls = FALSE
    /\ hadJob = FALSE
    /\ reported = "none"
    /\ budgetLeft = FALSE
    /\ lateQueries = 0
    /\ downloads = 0
    /\ phases = <<>>
    /\ trail = 0
    /\ attempted = <<>>

Init ==
    /\ InitRequest
    /\ registry = modelConfigProviders
    /\ NoRequests
    /\ NoCalls

(***************************************************************************)
(* makeAPIRequest, piece by piece.                                         *)
(***************************************************************************)
HttpErrorCode(status) ==
    IF status = 400 THEN "HTTP_ERROR_400" ELSE "HTTP_ERROR_500"

\* a submission that takes a response without task id for a job still running
SubmitFailure_stillProcessing(resp, modelName) ==
    IF resp.kind = "body" /\ resp.error.code # ""
    THEN getPlaceholderImage(resp.error.code, resp.error.message, modelName)
    ELSE getPlaceholderImage("STILL_PROCESSING",
             <<"The model is still processing the image. ", "Try again later.">>,
             modelName)

\* a submission that looks for the task id before the error code
SubmitFailure_taskIdFirst(resp, modelName) ==
    IF resp.kind = "body"
    THEN IF ~resp.hasTaskId
         THEN getPlaceholderImage("NO_TASK_ID", <<"No task ID returned from API">>,
                                  modelName)
         ELSE getPlaceholderImage(resp.error.code, resp.error.message, modelName)
    ELSE getPlaceholderImage("API_REQUEST_ERROR", <<"Request failed">>, modelName)

\* the outcome of the submission when it does not start a job: the error
\* code in the body, the missing task id, and the catch block of the function
SubmitFailure(resp, modelName) ==
    IF resp.kind = "body"
    THEN IF resp.error.code # ""
         THEN getPlaceholderImage(resp.error.code, resp.error.message, modelName)
         ELSE getPlaceholderImage("NO_TASK_ID", <<"No task ID returned from API">>,
                                  modelName)
    ELSE IF resp.kind = "http"
    THEN IF resp.status = 400 /\ startsWith(modelName, "wanx")
         THEN getPlaceholderImage("WANX_MODEL_ERROR",
                  <<"This Wanx model is temporarily unavailable. The server returned a 400 error.">>,
                  modelName)
         ELSE getPlaceholderImage(HttpErrorCode(resp.status),
                  <<"Server returned HTTP error: ">> \o
                      (IF resp.error.message = <<>> THEN <<"Unknown error">>
                       ELSE resp.error.message),
                  modelName)
    ELSE getPlaceholderImage(
             IF resp.errCode = "" THEN "API_REQUEST_ERROR" ELSE resp.errCode,
             IF resp.error.message = <<>> THEN <<"Request failed">>
             ELSE resp.error.message,
             modelName)

SubmitStartsJob(resp) ==
    resp.kind = "body" /\ resp.error.code = "" /\ resp.hasTaskId

\* the locals of the poll loop when it is entered
JobWith(modelConfig, modelName) ==
    [taskId |-> TRUE, modelName |-> modelName, retries |-> 0,
     maxRetries |-> modelConfig.maxRetries,
     taskStatus |-> "PENDING", taskResult |-> FALSE, errorCode |-> "",
     errorMessage |-> <<>>, lastApiResponse |-> NoResponse]

NewJob(modelName, retryCount) ==
    JobWith(getModelConfig(modelName, "aliyun", retryCount), modelName)

\* a poll loop that goes on as long as the job is not finished
PollGuard_statusOnly(j) == j.taskStatus \in {"PENDING", "RUNNING"}

\* a poll loop that looks at the budget only
PollGuard_budgetOnly(j) == JsLt(Num(j.retries), j.maxRetries)

\* the condition of the poll loop
PollGuard(j) ==
    JsLt(Num(j.retries), j.maxRetries) /\ j.taskStatus \in {"PENDING", "RUNNING"}

\* a catch block that does not count the failed check
PollCatch_uncounted(j) == j

\* the catch block of one status check
PollCatch(j) == [j EXCEPT !.retries = j.retries + 1]

\* the break of the poll loop on the tensor-device error
TensorBreak(j, code, message) ==
    /\ isTensorError(ErrorInfo(code, message))
    /\ JsLt(Num(j.retries), JsMinus(j.maxRetries, 1))

\* one status check with a response body: the new locals and whether the
\* loop was left by a break
PollBody(j, resp) ==
    LET ts == IF resp.task_status = "" THEN "FAILED" ELSE resp.task_status
        code == IF resp.error.code = "" THEN "UNKNOWN_ERROR" ELSE resp.error.code
        message == IF resp.error.message = <<>> THEN <<"Unknown error">>
                   ELSE resp.error.message
        seen == [j EXCEPT !.lastApiResponse = resp, !.taskStatus = ts]
        failed == IF ts = "FAILED"
                  THEN [seen EXCEPT !.errorCode = code, !.errorMessage = message]
                  ELSE seen
    IN  IF ts = "FAILED" /\ TensorBreak(j, code, message)
        THEN [job |-> failed, brk |-> TRUE]
        ELSE IF ts = "SUCCEEDED"
        THEN [job |-> [failed EXCEPT !.taskResult = resp.hasUrl], brk |-> TRUE]
        ELSE [job |-> [failed EXCEPT !.retries = j.retries + 1], brk |-> FALSE]

PollStep(j, resp) ==
    IF resp.kind = "error"
    THEN [job |-> PollCatch(j), brk |-> FALSE]
    ELSE PollBody(j, resp)

\* an exhausted budget reported by the placeholder alone
StillProcessing_noError(modelName) ==
    getPlaceholderImage("", <<>>, modelName)

StillProcessing(modelName) ==
    getPlaceholderImage("STILL_PROCESSING",
        <<"The model is still processing the image. This may take longer than expected. ",
          "Try again later.">>, modelName)

\* code after the poll loop that resubmits on the tensor-device error without
\* returning the attempt's result
AfterLoop_resubmitsAtOnce(j) ==
    IF j.taskStatus = "SUCCEEDED" /\ j.taskResult
    THEN [next |-> "download", result |-> NoResult]
    ELSE IF j.taskStatus = "FAILED"
            /\ isTensorError(ErrorInfo(j.errorCode, j.errorMessage))
    THEN [next |-> "attempt", result |-> NoResult]
    ELSE IF j.taskStatus = "RUNNING" \/ j.taskStatus = "PENDING"
    THEN [next |-> "result", result |-> StillProcessing(j.modelName)]
    ELSE [next |-> "result",
          result |-> getPlaceholderImage(
              IF j.errorCode = "" THEN "TIMEOUT_ERROR" ELSE j.errorCode,
              IF j.errorMessage = <<>>
              THEN <<"Task did not complete within time limit">>
              ELSE j.errorMessage,
              j.modelName)]

\* code after the poll loop without the second look at the last response
AfterLoop_noReextract(j) ==
    IF j.taskStatus = "SUCCEEDED" /\ j.taskResult
    THEN [next |-> "download", result |-> NoResult]
    ELSE IF j.taskStatus = "RUNNING" \/ j.taskStatus = "PENDING"
    THEN [next |-> "result", result |-> StillProcessing(j.modelName)]
    ELSE [next |-> "result",
          result |-> getPlaceholderImage(
              IF j.errorCode = "" THEN "TIMEOUT_ERROR" ELSE j.errorCode,
              IF j.errorMessage = <<>>
              THEN <<"Task did not complete within time limit">>
              ELSE j.errorMessage,
              j.modelName)]

\* code after the poll loop that downloads whenever the job succeeded
AfterLoop_downloadWithoutUrl(j) ==
    IF j.taskStatus = "SUCCEEDED"
    THEN [next |-> "download", result |-> NoResult]
    ELSE IF j.taskStatus = "RUNNING" \/ j.taskStatus = "PENDING"
    THEN [next |-> "result", result |-> StillProcessing(j.modelName)]
    ELSE [next |-> "result",
          result |-> getPlaceholderImage(
              IF j.errorCode = "" THEN "TIMEOUT_ERROR" ELSE j.errorCode,
              IF j.errorMessage = <<>>
              THEN <<"Task did not complete within time limit">>
              ELSE j.errorMessage,
              j.modelName)]

\* code after the poll loop that takes every unfinished job for a running one
AfterLoop_anyUnfinished(j) ==
    IF j.taskStatus = "SUCCEEDED" /\ j.taskResult
    THEN [next |-> "download", result |-> NoResult]
    ELSE IF j.taskStatus = "SUCCEEDED"
    THEN [next |-> "result",
          result |-> getPlaceholderImage("NO_IMAGE_URL",
              <<"No image URL found in successful response">>, j.modelName)]
    ELSE [next |-> "result", result |-> StillProcessing(j.modelName)]

\* the code after the poll loop: "download" when an image is to be fetched,
\* otherwise the result returned
AfterLoop(j) ==
    IF j.taskStatus = "SUCCEEDED" /\ j.taskResult
    THEN [next |-> "download", result |-> NoResult]
    ELSE IF j.taskStatus = "SUCCEEDED" /\ j.lastApiResponse # NoResponse
    THEN IF j.lastApiResponse.hasUrl
         THEN [next |-> "download", result |-> NoResult]
         ELSE [next |-> "result",
               result |-> getPlaceholderImage("NO_IMAGE_URL",
                   <<"No image URL found in successful response">>, j.modelName)]
    ELSE IF j.taskStatus = "RUNNING" \/ j.taskStatus = "PENDING"
    THEN [next |-> "result", result |-> StillProcessing(j.modelName)]
    ELSE [next |-> "result",
          result |-> getPlaceholderImage(
              IF j.errorCode = "" THEN "TIMEOUT_ERROR" ELSE j.errorCode,
              IF j.errorMessage = <<>>
              THEN <<"Task did not complete within time limit">>
              ELSE j.errorMessage,
              j.modelName)]

\* a download that returns the bare base64 text
Materialize_bareBase64(ok, modelName) ==
    IF ok
    THEN [imageData |-> BASE64_PNG, errorInfo |-> NoError, model |-> modelName]
    ELSE getPlaceholderImage("IMAGE_DOWNLOAD_ERROR", <<"Failed to download image">>,
                             modelName)

\* how an attempt ended, by the return statement that made its result: the
\* downloaded image, STILL_PROCESSING, or any other failure
DoneState(r) ==
    IF r.errorInfo = NoError THEN "DONE_SUCCESS"
    ELSE IF r.errorInfo.code = "STILL_PROCESSING" THEN "DONE_TIMEOUT"
    ELSE "DONE_FAILURE"

\* the result of the download of the image
Materialize(ok, modelName) ==
    IF ok
    THEN [imageData |-> DATA_URL_PNG, errorInfo |-> NoError, model |-> modelName]
    ELSE getPlaceholderImage("IMAGE_DOWNLOAD_ERROR", <<"Failed to download image">>,
                             modelName)

(***************************************************************************)
(* attemptGeneration and the retry loop of generateAliyunImage.            *)
(***************************************************************************)
\* params.model || env.ALIYUN_FLUX_MODEL
ModelOf(p) == IF p.model = NoModel THEN fluxModel ELSE p.model

\* the seed of the request body when Math.random gives `drawn`;
\* params.seed || ... takes an absent seed and the seed 0 alike
RequestSeed(retryCount, p, drawn) ==
    IF retryCount > 0 THEN drawn
    ELSE IF p.seed.given /\ p.seed.v # 0 THEN p.seed.v ELSE drawn

\* the seeds the request body may carry
SeedChoices(retryCount, p) ==
    { RequestSeed(retryCount, p, drawn) : drawn \in Seeds }

\* a retry loop whose bound is off by one
RetryWanted_offByOne(retryCount, r) ==
    /\ retryCount <= MAX_INTERNAL_ERROR_RETRIES
    /\ r.errorInfo # NoError
    /\ isTensorError(r.errorInfo)

\* the condition of the retry loop
RetryWanted(retryCount, r) ==
    /\ retryCount < MAX_INTERNAL_ERROR_RETRIES
    /\ r.errorInfo # NoError
    /\ isTensorError(r.errorInfo)

(***************************************************************************)
(* Responses to the user.                                                  *)
(***************************************************************************)
ToolInvalidSize ==
    [status |-> 200, imageData |-> NoImage, success |-> FALSE,
     message |-> <<"Invalid image size. Please use one of the following sizes">>,
     errorInfo |-> ErrorInfo("INVALID_SIZE", <<"Invalid image size">>),
     model |-> NoModel, isPlaceholder |-> FALSE, allErrors |-> <<>>]

ToolSuccess(r, modelToTry) ==
    [status |-> 200, imageData |-> r.imageData, success |-> TRUE,
     message |-> <<"Image generated successfully">>, errorInfo |-> NoError,
     model |-> modelToTry, isPlaceholder |-> FALSE, allErrors |-> <<>>]

\* a composite failure that reports the last error only
ToolAllFailed_lastOnly(errors) ==
    [status |-> 200, imageData |-> NoImage, success |-> FALSE,
     message |-> <<"Failed to generate image with all available models.">>,
     errorInfo |-> ErrorInfo("ALL_MODELS_FAILED",
                       <<"Failed to generate image with all available models.">>),
     model |-> NoModel, isPlaceholder |-> FALSE,
     allErrors |-> << errors[Len(errors)] >>]

\* the composite failure of the tool once every candidate failed
ToolAllFailed(errors) ==
    LET hasTensorError ==
            \E i \in 1..Len(errors) : isTensorError(errors[i].error)
        errorMessage ==
            IF hasTensorError
            THEN <<"The image generation service is currently experiencing technical issues with its AI models. ",
                   "This is a server-side problem, not an issue with your prompt. ",
                   "Please try again later or try a different prompt.">>
            ELSE <<"Failed to generate image with all available models.">>
        errorCode == IF hasTensorError THEN "SERVER_MODEL_ERROR"
                     ELSE "ALL_MODELS_FAILED"
    IN  [status |-> 200, imageData |-> NoImage, success |-> FALSE,
         message |-> errorMessage,
         errorInfo |-> ErrorInfo(errorCode, errorMessage),
         model |-> NoModel, isPlaceholder |-> FALSE, allErrors |-> errors]

\* the entry the tool adds to allErrors for a failed candidate
ToolErrorEntry(modelToTry, r) == [model |-> modelToTry, error |-> r.errorInfo]

\* the body of the image-generation route
RouteResponse(r, requested) ==
    LET usedModel == IF r.model # NoModel THEN r.model ELSE requested
        \* !imageData || imageData.length < 100; the data URL of a downloaded
        \* image is longer
        tooShort ==
            \/ r.imageData = NoImage
            \/ /\ r.imageData = PLACEHOLDER_PNG
               /\ PLACEHOLDER_LENGTH < SHORT_IMAGE_LENGTH
        cleanedImageData == StripDataUrlPrefix(r.imageData)
        message ==
            IF r.errorInfo = NoError
            THEN IF tooShort
                 THEN <<"API authentication failed. Using placeholder image.">>
                 ELSE <<"Image generated successfully using model">>
            ELSE IF r.errorInfo.code = "InternalError.Algo"
            THEN <<"The Aliyun Bailian API encountered an internal server error. ",
                   "Using placeholder image.">>
            ELSE IF r.errorInfo.code = "STILL_PROCESSING"
            THEN r.errorInfo.message
            ELSE <<"API error: ">> \o r.errorInfo.message \o
                 <<". Using placeholder image.">>
        isPlaceholder ==
            IF r.errorInfo # NoError /\ r.errorInfo.code = "STILL_PROCESSING"
            THEN FALSE ELSE tooShort
    IN  [status |-> 200, imageData |-> cleanedImageData,
         success |-> r.errorInfo = NoError,
         message |-> message, errorInfo |-> r.errorInfo, model |-> usedModel,
         isPlaceholder |-> isPlaceholder, allErrors |-> <<>>]

\* the body of the generate-image route
GenerateRouteResponse(r) ==
    [status |-> 200, imageData |-> r.imageData, success |-> r.errorInfo = NoError,
     message |-> r.errorInfo.message, errorInfo |-> NoError, model |-> NoModel,
     isPlaceholder |-> FALSE, allErrors |-> <<>>]

BadRequest(text) ==
    [status |-> 400, imageData |-> NoImage, success |-> FALSE, message |-> <<text>>,
     errorInfo |-> NoError, model |-> NoModel, isPlaceholder |-> FALSE,
     allErrors |-> <<>>]

(***************************************************************************)
(* Actions.                                                                *)
(***************************************************************************)
NoJobHistory ==
    /\ polls' = 0
    /\ waits' = << NoWait, NoWait >>
    /\ hadJob' = FALSE
    /\ reported' = "none"
    /\ budgetLeft' = FALSE
    /\ lateQueries' = 0
    /\ downloads' = 0

\* the call generateAliyunImage(p): the state at its first await
CallGenerate(p) ==
    /\ params' = p
    /\ internalErrorRetryCount' = 0
    /\ seed' = 0
    /\ job' = NoJob
    /\ result' = NoResult
    /\ submits' = 0
    /\ NoJobHistory
    /\ phases' = <<"SUBMITTING">>
    /\ trail' = 0
    /\ pc' = "attempt"

\* generateImage.execute up to its first call of generateAliyunImage
ToolRequest(size, model) ==
    /\ pc = "idle"
    /\ entry' = "tool"
    /\ requestSize' = << OrDefault(size[1]), OrDefault(size[2]) >>
    /\ IF ~isValidSize(size[1], size[2])
       THEN /\ response' = ToolInvalidSize
            /\ pc' = "done"
            /\ UNCHANGED << toolVars, params, internalErrorRetryCount, seed, job,
                            result, submits, jobHistory, phases, trail >>
       ELSE LET list == ModelsToTry(model, fluxModel, wanxModels)
            IN  /\ modelsToTry' = list
                /\ idx' = 1
                /\ allErrors' = <<>>
                /\ CallGenerate([width |-> OrDefault(size[1]),
                                 height |-> OrDefault(size[2]),
                                 model |-> list[1], seed |-> NoSeed])
                /\ UNCHANGED response
    /\ UNCHANGED << config, concurrent, units, netCalls, attempted >>

\* POST of the image-generation route up to its call of generateAliyunImage
ImageGenerationRoute(size, model) ==
    /\ pc = "idle"
    /\ entry' = "route"
    /\ requestSize' = << OrDefault(size[1]), OrDefault(size[2]) >>
    /\ CallGenerate([width |-> size[1], height |-> size[2], model |-> model,
                     seed |-> NoSeed])
    /\ UNCHANGED << config, concurrent, units, toolVars, response, netCalls, attempted >>

\* POST of the generate-image route up to its call of generateAliyunImage
GenerateImageRoute(size, model) ==
    /\ pc = "idle"
    /\ entry' = "generate-route"
    /\ requestSize' = << OrDefault(size[1]), OrDefault(size[2]) >>
    /\ IF model = NoModel
       THEN /\ response' = BadRequest("Model is required")
            /\ pc' = "done"
            /\ UNCHANGED << params, internalErrorRetryCount, seed, job, result,
                            submits, jobHistory, phases, trail >>
       ELSE /\ CallGenerate([width |-> OrDefault(size[1]),
                             height |-> OrDefault(size[2]),
                             model |-> model, seed |-> NoSeed])
            /\ UNCHANGED response
    /\ UNCHANGED << config, concurrent, units, toolVars, netCalls, attempted >>

\* attemptGeneration: the request body, the submission POST and the code of
\* makeAPIRequest up to the first wait of the poll loop (or past the loop when
\* it is not entered)
Submit(s, resp) ==
    /\ pc = "attempt"
    /\ s \in SeedChoices(internalErrorRetryCount, params)
    /\ seed' = s
    /\ submits' = submits + 1
    /\ netCalls' = TRUE
    /\ attempted' = IF submits = 0 THEN Append(attempted, ModelOf(params))
                    ELSE attempted
    /\ polls' = 0
    /\ reported' = "none"
    /\ lateQueries' = 0
    /\ downloads' = 0
    /\ trail' = 0
    /\ hadJob' = SubmitStartsJob(resp)
    /\ IF SubmitStartsJob(resp)
       THEN LET j == NewJob(ModelOf(params), NumberValue(envRetryCount))
            IN  /\ budgetLeft' = JsLt(Num(0), j.maxRetries)
                /\ IF PollGuard(j)
                   THEN /\ pc' = "poll" /\ result' = NoResult /\ job' = j
                        /\ waits' = << NoWait, Backoff(j.retries) >>
                   ELSE /\ pc' = AfterLoop(j).next
                        /\ result' = AfterLoop(j).result
                        /\ job' = NoJob
                        /\ waits' = << NoWait, NoWait >>
       ELSE /\ job' = NoJob
            /\ budgetLeft' = FALSE
            /\ waits' = << NoWait, NoWait >>
            /\ result' = SubmitFailure(resp, ModelOf(params))
            /\ pc' = "result"
    /\ phases' = phases
                  \o (IF SubmitStartsJob(resp) THEN <<"POLLING">> ELSE <<>>)
                  \o (IF pc' = "result" THEN <<DoneState(result')>> ELSE <<>>)
    /\ UNCHANGED << config, concurrent, units, entry, requestSize, toolVars, response, params,
                    internalErrorRetryCount >>

\* the trail after the answer resp to the query that follows `queries` others
TrailAfter(t, queries, resp) ==
    IF queries = 0 /\ resp = StatusBody("PENDING", NoError, FALSE) THEN 1
    ELSE IF queries = 1 /\ t = 1 /\ resp = StatusBody("RUNNING", NoError, FALSE)
    THEN 2
    ELSE IF queries = 2 /\ t = 2 /\ resp = StatusBody("SUCCEEDED", NoError, TRUE)
    THEN 3
    ELSE 0

\* one status GET of the poll loop, made once the wait is over, and the
\* handling of its answer; then either the wait of the next turn or the code
\* after the loop
Query(resp) ==
    /\ pc = "poll"
    /\ LET step == PollStep(job, resp)
           j == step.job
       IN  IF ~step.brk /\ PollGuard(j)
           THEN /\ pc' = "poll" /\ result' = NoResult /\ job' = j
                /\ polls' = polls + 1
                /\ waits' = << waits[2], Backoff(j.retries) >>
           ELSE /\ pc' = AfterLoop(j).next
                /\ result' = AfterLoop(j).result
                \* the locals are read again by the download
                /\ job' = IF AfterLoop(j).next = "download" THEN j ELSE NoJob
                /\ polls' = 0
                /\ waits' = << NoWait, NoWait >>
    /\ netCalls' = TRUE
    /\ budgetLeft' = JsLt(Num(polls + 1), job.maxRetries)
    /\ lateQueries' = IF reported \in {"none", "PENDING", "RUNNING"}
                      THEN lateQueries ELSE lateQueries + 1
    /\ reported' = IF resp.kind = "error" THEN reported
                   ELSE IF resp.task_status = "" THEN "missing"
                   ELSE resp.task_status
    /\ trail' = TrailAfter(trail, polls, resp)
    /\ phases' = phases
                  \o (IF pc' = "download" THEN <<"DOWNLOADING">>
                      ELSE IF pc' = "result" THEN <<DoneState(result')>>
                      ELSE <<>>)
    /\ UNCHANGED << config, concurrent, units, entry, requestSize, toolVars, response, params,
                    internalErrorRetryCount, seed, submits, hadJob,
                    downloads, attempted >>

\* the GET of the image and its conversion
Download(ok) ==
    /\ pc = "download"
    /\ result' = Materialize(ok, ModelOf(params))
    /\ pc' = "result"
    /\ downloads' = downloads + 1
    /\ netCalls' = TRUE
    /\ job' = NoJob
    /\ phases' = Append(phases, DoneState(result'))
    /\ UNCHANGED << config, concurrent, units, entry, requestSize, toolVars, response, params,
                    internalErrorRetryCount, seed, submits, polls, waits,
                    hadJob, reported, budgetLeft, lateQueries, trail, attempted >>

\* generateAliyunImage after attemptGeneration returned: its retry loop, and
\* its return, which ends the life of its locals
RetryLoop ==
    /\ pc = "result"
    /\ IF RetryWanted(internalErrorRetryCount, result)
       THEN /\ internalErrorRetryCount' = internalErrorRetryCount + 1
            /\ pc' = "attempt"
            /\ phases' = <<"SUBMITTING">>
            /\ UNCHANGED << seed, submits, jobHistory >>
       ELSE /\ pc' = "returned"
            /\ phases' = <<>>
            /\ internalErrorRetryCount' = 0
            /\ seed' = 0
            /\ submits' = 0
            /\ NoJobHistory
    /\ UNCHANGED << config, concurrent, units, entry, requestSize, toolVars, response, params,
                    job, result, netCalls, trail, attempted >>

\* generateImage.execute after generateAliyunImage returned: the rest of the
\* loop body, the next turn of the for loop, and the code after the loop
\* the success test with its sense inverted
ToolSucceeded_inverted(r) == r.errorInfo # NoError

ToolSucceeded(r) == r.errorInfo = NoError

ToolHandleResult ==
    /\ pc = "returned"
    /\ entry = "tool"
    /\ LET modelToTry == modelsToTry[idx]
       IN  IF ToolSucceeded(result)
           THEN /\ response' = ToolSuccess(result, modelToTry)
                /\ pc' = "done"
                /\ UNCHANGED << toolVars, params, internalErrorRetryCount, seed,
                                job, result, submits, jobHistory, phases, trail >>
           ELSE LET errors == Append(allErrors, ToolErrorEntry(modelToTry, result))
                IN  /\ allErrors' = errors
                    /\ UNCHANGED modelsToTry
                    \* with or without the continue, the for loop goes on to
                    \* the next candidate when there is one
                    /\ IF idx < Len(modelsToTry)
                       THEN /\ idx' = idx + 1
                            /\ CallGenerate([params EXCEPT
                                                !.model = modelsToTry[idx + 1]])
                            /\ UNCHANGED response
                       ELSE /\ response' = ToolAllFailed(errors)
                            /\ pc' = "done"
                            /\ UNCHANGED << idx, params, internalErrorRetryCount,
                                            seed, job, result, submits,
                                            jobHistory, phases, trail >>
    /\ UNCHANGED << config, concurrent, units, entry, requestSize, netCalls, attempted >>

\* POST of the image-generation route after generateAliyunImage returned
RouteRespond ==
    /\ pc = "returned"
    /\ entry = "route"
    /\ response' = RouteResponse(result, params.model)
    /\ pc' = "done"
    /\ UNCHANGED << config, concurrent, units, entry, requestSize, toolVars, params,
                    internalErrorRetryCount, seed, job, result, submits,
                    netCalls, jobHistory, phases, trail, attempted >>

\* POST of the generate-image route after generateAliyunImage returned
GenerateRouteRespond ==
    /\ pc = "returned"
    /\ entry = "generate-route"
    /\ response' = GenerateRouteResponse(result)
    /\ pc' = "done"
    /\ UNCHANGED << config, concurrent, units, entry, requestSize, toolVars, params,
                    internalErrorRetryCount, seed, job, result, submits,
                    netCalls, jobHistory, phases, trail, attempted >>

Next ==
    \/ \E size \in SizeInputs, model \in ModelInputs : ToolRequest(size, model)
    \/ \E size \in SizeInputs, model \in ModelInputs :
           ImageGenerationRoute(size, model)
    \/ \E size \in SizeInputs, model \in ModelInputs :
           GenerateImageRoute(size, model)
    \/ \E s \in Seeds, resp \in SubmitResponses : Submit(s, resp)
    \/ \E resp \in StatusResponses : Query(resp)
    \/ \E ok \in BOOLEAN : Download(ok)
    \/ RetryLoop
    \/ ToolHandleResult
    \/ RouteRespond
    \/ GenerateRouteRespond

Spec == Init /\ [][Next]_vars

\* every await of the code resolves or rejects, and the code between two
\* awaits is run to its end; the poll budget of the Flux and default models is
\* the largest one
InitFair == Init /\ envRetryCount = Num(MaxEnvRetry)
FairSpec == InitFair /\ [][Next]_vars /\ WF_vars(Next)

(***************************************************************************)
(* Two requests served at once.  A request is the tool's execute with a    *)
(* valid size; each await of the code is a point where the other request   *)
(* may run.  Every step is computed once on the request's view of the      *)
(* shared memory and once on the request served alone.                     *)
(***************************************************************************)
WithRetries(j, n) == [j EXCEPT !.retries = n]

\* execute up to its first call of generateAliyunImage
RunStart(r, list) ==
    [r EXCEPT !.pc = "attempt", !.models = list, !.idx = 1,
              !.allErrors = <<>>, !.internalErrorRetryCount = 0]

\* makeAPIRequest up to the first wait of the poll loop
RunSubmit(r, resp, providers, retryCount) ==
    LET modelName == r.models[r.idx]
        j == JobWith(lookupModelConfig(providers, modelName, "aliyun",
                                       retryCount), modelName)
    IN  IF SubmitStartsJob(resp)
        THEN IF PollGuard(j)
             THEN [r EXCEPT !.pc = "poll", !.job = j, !.retries = 0,
                            !.result = NoResult]
             ELSE [r EXCEPT !.pc = AfterLoop(j).next, !.retries = 0,
                            !.result = AfterLoop(j).result]
        ELSE [r EXCEPT !.pc = "result",
                       !.result = SubmitFailure(resp, modelName)]

\* one turn of the poll loop and, when the loop ends, the code up to the
\* download
RunQuery(r, resp) ==
    LET step == PollStep(WithRetries(r.job, r.retries), resp)
        j == step.job
    IN  IF ~step.brk /\ PollGuard(j)
        THEN [r EXCEPT !.job = WithRetries(j, 0), !.retries = j.retries]
        ELSE [r EXCEPT !.pc = AfterLoop(j).next,
                       !.result = AfterLoop(j).result,
                       !.retries = j.retries,
                       !.job = IF AfterLoop(j).next = "download"
                               THEN WithRetries(j, 0) ELSE NoJob]

RunDownload(r, ok) ==
    [r EXCEPT !.pc = "result", !.job = NoJob,
              !.result = Materialize(ok, r.models[r.idx])]

\* generateAliyunImage after attemptGeneration returned
RunRetryLoop(r) ==
    IF RetryWanted(r.internalErrorRetryCount, r.result)
    THEN [r EXCEPT !.pc = "attempt",
                   !.internalErrorRetryCount = r.internalErrorRetryCount + 1]
    ELSE [r EXCEPT !.pc = "returned"]

\* execute after generateAliyunImage returned
RunHandleResult(r) ==
    LET modelToTry == r.models[r.idx]
        errors == Append(r.allErrors, ToolErrorEntry(modelToTry, r.result))
    IN  IF ToolSucceeded(r.result)
        THEN [r EXCEPT !.pc = "done",
                       !.response = ToolSuccess(r.result, modelToTry)]
        ELSE IF r.idx < Len(r.models)
        THEN [r EXCEPT !.allErrors = errors, !.idx = r.idx + 1,
                       !.pc = "attempt", !.result = NoResult,
                       !.internalErrorRetryCount = 0]
        ELSE [r EXCEPT !.allErrors = errors, !.pc = "done",
                       !.response = ToolAllFailed(errors)]

\* request i as it sees the memory of the process
Assemble(i) ==
    [pc |-> calls[i].pc, models |-> calls[i].models, idx |-> calls[i].idx,
     job |-> calls[i].job, result |-> calls[i].result,
     response |-> calls[i].response,
     internalErrorRetryCount |->
         store.internalErrorRetryCount[CounterScope(i)],
     retries |-> store.retries[RetriesScope(i)],
     allErrors |-> store.allErrors[ErrorsScope(i)]]

\* request i moves to `after` in the process and to `afterAlone` alone
Commit(i, after, afterAlone) ==
    /\ calls' = [calls EXCEPT ![i] =
                     [pc |-> after.pc, models |-> after.models,
                      idx |-> after.idx, job |-> after.job,
                      result |-> after.result, response |-> after.response]]
    /\ store' =
           [internalErrorRetryCount |->
                [store.internalErrorRetryCount EXCEPT
                     ![CounterScope(i)] = after.internalErrorRetryCount],
            retries |->
                [store.retries EXCEPT ![RetriesScope(i)] = after.retries],
            allErrors |->
                [store.allErrors EXCEPT ![ErrorsScope(i)] = after.allErrors]]
    /\ alone' = [alone EXCEPT ![i] = afterAlone]
    /\ UNCHANGED << requestState, registry, units >>

\* the responses the two requests are given
ConcurrentSubmitResponses ==
    { SubmitBody(NoError, TRUE),
      SubmitBody(ErrorInfo("InternalError.Algo", TensorMessage), FALSE),
      SubmitHttpError(400, NoError) }
ConcurrentStatusResponses ==
    { StatusBody("RUNNING", NoError, FALSE),
      StatusBody("SUCCEEDED", NoError, TRUE),
      StatusBody("FAILED", ErrorInfo("InternalError.Algo", TensorMessage),
                 FALSE),
      StatusTransportError }

\* evaluation of the Aliyun provider's module: registerModelConfigProvider
LoadProvider ==
    /\ registry["aliyun"] = NotRegistered
    /\ registry' = registerModelConfigProvider(registry, "aliyun",
                                                "getAliyunModelConfig")
    /\ UNCHANGED << requestState, store, calls, alone, units >>

\* a handler runs once the modules it imports were evaluated
ConcurrentRequest(i, model) ==
    /\ registry["aliyun"] # NotRegistered
    /\ calls[i].pc = "idle"
    /\ LET list == ModelsToTry(model, fluxModel, wanxModels)
       IN  Commit(i, RunStart(Assemble(i), list), RunStart(alone[i], list))

ConcurrentSubmit(i, resp) ==
    /\ calls[i].pc = "attempt"
    /\ Commit(i, RunSubmit(Assemble(i), resp, registry,
                           NumberValue(envRetryCount)),
                 RunSubmit(alone[i], resp, modelConfigProviders,
                           NumberValue(envRetryCount)))

ConcurrentQuery(i, resp) ==
    /\ calls[i].pc = "poll"
    /\ Commit(i, RunQuery(Assemble(i), resp), RunQuery(alone[i], resp))

ConcurrentDownload(i, ok) ==
    /\ calls[i].pc = "download"
    /\ Commit(i, RunDownload(Assemble(i), ok), RunDownload(alone[i], ok))

ConcurrentRetryLoop(i) ==
    /\ calls[i].pc = "result"
    /\ Commit(i, RunRetryLoop(Assemble(i)), RunRetryLoop(alone[i]))

ConcurrentHandleResult(i) ==
    /\ calls[i].pc = "returned"
    /\ Commit(i, RunHandleResult(Assemble(i)), RunHandleResult(alone[i]))

InitTwo ==
    /\ InitRequest
    /\ envRetryCount = Num(MaxEnvRetry)
    /\ wanxModels = <<>>
    /\ registry = NoProviders
    /\ NoRequests
    /\ NoCalls

NextTwo ==
    \/ LoadProvider
    \/ \E i \in Requests, model \in {NoModel, FluxSchnell} :
           ConcurrentRequest(i, model)
    \/ \E i \in Requests, resp \in ConcurrentSubmitResponses :
           ConcurrentSubmit(i, resp)
    \/ \E i \in Requests, resp \in ConcurrentStatusResponses :
           ConcurrentQuery(i, resp)
    \/ \E i \in Requests, ok \in BOOLEAN : ConcurrentDownload(i, ok)
    \/ \E i \in Requests : ConcurrentRetryLoop(i)
    \/ \E i \in Requests : ConcurrentHandleResult(i)

SpecTwo == InitTwo /\ [][NextTwo]_vars

(***************************************************************************)
(* The functions of the configuration and of the request body, called on   *)
(* their own with every argument of small sets.                            *)
(***************************************************************************)
MaxRegistrations == 3

\* what env.RETRY_COUNT, env.REQUEST_TIMEOUT or any argument typed
\* string | number | undefined can be
EnvValues ==
    { Undefined, NumberValue(NaN) }
    \cup { NumberValue(Num(n)) : n \in 0..MaxEnvRetry }
    \cup { StringValue(t) : t \in { <<>>, <<"2">>, <<"1", "0">>, <<"x">>,
                                    <<"3", "x">> } }
TimeoutValues ==
    { Undefined, NumberValue(NaN), NumberValue(Num(ENV_REQUEST_TIMEOUT)) }
UnitModelIds ==
    { NoModel, FluxSchnell, WanxTurbo, WanxLiteral, CustomModel,
      ModelId("WANX", "2.1-T2I-TURBO"), ModelId("Flux", "-Dev"),
      ModelId("sdxl", "-wanx-flux") }
RegisteringProviders == {"aliyun", "openai"}

CallGetEnvNumber(value, fallback) ==
    /\ unit = NoUnit
    /\ unit' = [NoUnit EXCEPT !.fn = "getEnvNumber", !.value = value,
                              !.fallback = fallback,
                              !.number = getEnvNumber(value, fallback)]
    /\ UNCHANGED << requestState, concurrent, registrations >>

CallGetAliyunModelConfig(modelId, retryCount, requestTimeout) ==
    /\ unit = NoUnit
    /\ unit' = [NoUnit EXCEPT !.fn = "getAliyunModelConfig",
                              !.modelId = modelId,
                              !.retryCount = retryCount,
                              !.requestTimeout = requestTimeout,
                              !.config = AliyunModelConfig(modelId, retryCount,
                                                           requestTimeout)]
    /\ UNCHANGED << requestState, concurrent, registrations >>

\* the seed attemptGeneration puts into the request body on its attempt-th
\* resubmission
CallAttemptSeed(attempt, seedParam, drawn) ==
    /\ unit = NoUnit
    /\ unit' = [NoUnit EXCEPT !.fn = "attemptGeneration",
                              !.attempt = attempt, !.seed = seedParam,
                              !.drawn = drawn,
                              !.number = Num(RequestSeed(attempt,
                                             [NoParams EXCEPT !.seed = seedParam],
                                             drawn))]
    /\ UNCHANGED << requestState, concurrent, registrations >>

CallRegister(provider, configFn) ==
    /\ unit = NoUnit
    /\ Len(registrations) < MaxRegistrations
    /\ registry' = registerModelConfigProvider(registry, provider, configFn)
    /\ registrations' = Append(registrations, << provider, configFn >>)
    /\ unit' = [NoUnit EXCEPT !.fn = "registerModelConfigProvider",
                              !.provider = provider]
    /\ UNCHANGED << requestState, store, calls, alone >>

CallGetModelConfig(modelId, provider) ==
    /\ unit = NoUnit
    /\ unit' = [NoUnit EXCEPT !.fn = "getModelConfig", !.modelId = modelId,
                              !.provider = provider,
                              !.retryCount = NumberValue(envRetryCount),
                              !.config = lookupModelConfig(registry, modelId,
                                             provider,
                                             NumberValue(envRetryCount))]
    /\ UNCHANGED << requestState, concurrent, registrations >>

\* the call returned and its result was used
CallReturn ==
    /\ unit # NoUnit
    /\ unit' = NoUnit
    /\ UNCHANGED << requestState, concurrent, registrations >>

InitUnit ==
    /\ InitRequest
    /\ envRetryCount = Num(MaxEnvRetry)
    /\ wanxModels = <<>>
    /\ registry = NoProviders
    /\ NoRequests
    /\ NoCalls

NextUnit ==
    \/ \E value \in EnvValues,
          fallback \in {DEFAULT_RETRY_COUNT, DEFAULT_REQUEST_TIMEOUT} :
           CallGetEnvNumber(value, fallback)
    \/ \E modelId \in UnitModelIds, retryCount \in EnvValues,
          requestTimeout \in TimeoutValues :
           CallGetAliyunModelConfig(modelId, retryCount, requestTimeout)
    \/ \E attempt \in 0..MAX_INTERNAL_ERROR_RETRIES,
          seedParam \in {NoSeed} \cup { GivenSeed(n) : n \in Seeds },
          drawn \in Seeds :
           CallAttemptSeed(attempt, seedParam, drawn)
    \/ \E provider \in RegisteringProviders, configFn \in ConfigFns :
           CallRegister(provider, configFn)
    \/ \E modelId \in UnitModelIds, provider \in Providers :
           CallGetModelConfig(modelId, provider)
    \/ CallReturn

SpecUnit == InitUnit /\ [][NextUnit]_vars

(***************************************************************************)
(* Properties.                                                             *)
(***************************************************************************)
Requested == entry # "none"
InvalidSizeRequested == Requested /\ requestSize \notin availableSizes
FinalToolFailure ==
    /\ pc = "done" /\ entry = "tool"
    /\ ~response.success
    /\ response.errorInfo.code # "INVALID_SIZE"

\* C1: on every entry point, a request whose (width, height), absent values
\* defaulted to 1024, is not an allowed size issues no network call and is
\* answered with errorInfo.code INVALID_SIZE (a request refused with HTTP 400
\* for a missing field aside).
C1_InvalidSizeRejected ==
    InvalidSizeRequested =>
        /\ ~netCalls
        /\ (pc = "done" /\ response.status # 400 =>
                response.errorInfo.code = "INVALID_SIZE")

\* C2: the tool submits the candidates in list order, candidate k+1 only after
\* candidate k's attempt returned a failure (recorded in allErrors), and once
\* a candidate succeeded nothing more is submitted: the response has
\* success:true and names the last candidate submitted.
C2_InOrderUntilFirstSuccess ==
    entry = "tool" =>
        /\ Len(attempted) <= Len(modelsToTry)
        /\ \A i \in 1..Len(attempted) : attempted[i] = modelsToTry[i]
        /\ Len(attempted) <= Len(allErrors) + 1
        /\ \A i \in 1..Len(allErrors) :
               /\ i <= Len(attempted)
               /\ allErrors[i].model = attempted[i]
               /\ allErrors[i].error # NoError
        /\ (pc = "done" /\ response.success =>
               /\ result.errorInfo = NoError
               /\ Len(attempted) = Len(allErrors) + 1
               /\ response.model = attempted[Len(attempted)]
               /\ result.model = response.model)

C2_Witness ==
    /\ pc = "done" /\ entry = "tool" /\ response.success
    /\ Len(modelsToTry) = 3
    /\ Len(attempted) = 2

\* C3: when every candidate failed, allErrors of the composite failure holds
\* exactly one entry per candidate model, in attempt order.
C3_OneErrorPerCandidate ==
    FinalToolFailure =>
        /\ Len(response.allErrors) = Len(modelsToTry)
        /\ attempted = modelsToTry
        /\ \A i \in 1..Len(modelsToTry) :
               response.allErrors[i].model = attempted[i]

\* a composite failure of several models, one of them resubmitted until the
\* tensor-device error was handed back, another one rejected with HTTP 400
C3_Witness ==
    /\ FinalToolFailure
    /\ Len(response.allErrors) >= 2
    /\ \E i \in 1..Len(response.allErrors) :
           isTensorError(response.allErrors[i].error)
    /\ \E i \in 1..Len(response.allErrors) :
           response.allErrors[i].error.code = "WANX_MODEL_ERROR"

\* C4: within one call of generateAliyunImage a resubmission is made only when
\* the previous result carries the tensor-device signature, targets the same
\* model, and there are at most 3 of them (4 submissions in all).
C4_BoundedSameModelRetries ==
    /\ internalErrorRetryCount <= MAX_INTERNAL_ERROR_RETRIES
    /\ submits <= MAX_INTERNAL_ERROR_RETRIES + 1
    /\ (pc = "attempt" /\ submits > 0 =>
           /\ internalErrorRetryCount = submits
           /\ isTensorError(result.errorInfo)
           /\ result.model = ModelOf(params)
           /\ attempted[Len(attempted)] = ModelOf(params))

\* the fourth submission failed with the tensor-device error as well
C4_Witness ==
    /\ pc = "result"
    /\ submits = MAX_INTERNAL_ERROR_RETRIES + 1
    /\ isTensorError(result.errorInfo)

\* C5: a tensor-device failure is surfaced only after at least one
\* resubmission, and every resubmission carries a seed different from the
\* seed of the submission that failed.
C5_ResubmitsWithDifferentSeed ==
    [][ /\ (pc = "result" /\ pc' = "returned" /\ isTensorError(result.errorInfo)
               => submits >= 2)
        /\ (pc = "attempt" /\ submits > 0 /\ submits' = submits + 1
               => seed' # seed) ]_vars

\* C6: at most maxRetries (of the model's ModelConfig) status queries are
\* issued for a job, and none once a response reported a task_status other
\* than PENDING and RUNNING.
C6_QueriesWithinBudget ==
    /\ lateQueries = 0
    /\ (pc = "poll" =>
           /\ JsLt(Num(polls),
                   getModelConfig(ModelOf(params), "aliyun",
                                  NumberValue(envRetryCount)).maxRetries)
           /\ reported \in {"none", "PENDING", "RUNNING"})

\* the fifteenth and last query of a Wanx job still reported RUNNING
C6_Witness ==
    /\ pc = "result" /\ hadJob /\ ~budgetLeft
    /\ reported = "RUNNING"
    /\ toLowerCase(ModelOf(params).prefix) = "wanx"

\* C7: the wait before the n-th status query of a job, n being the number of
\* earlier queries of the job whatever their outcome, is 1000 * 1.5^n ms, and
\* longer than the wait before the query preceding it.
C7_ExponentialBackoff ==
    pc = "poll" =>
        /\ waits[2] = [base |-> 1000, num |-> Pow(3, polls), den |-> Pow(2, polls)]
        /\ (polls > 0 => WaitLess(waits[1], waits[2]))

\* the wait before the third query, the first two having raised transport
\* errors
C7_Witness == pc = "poll" /\ polls = 2 /\ reported = "none"

\* C8: an attempt returns STILL_PROCESSING exactly when a job was created and
\* the budget of queries ran out while the last known task_status was PENDING
\* or RUNNING (PENDING being what is known before any report).
C8_StillProcessingIffBudgetExhausted ==
    pc = "result" =>
        ( result.errorInfo.code = "STILL_PROCESSING"
          <=> /\ hadJob
              /\ ~budgetLeft
              /\ reported \in {"none", "PENDING", "RUNNING"} )

C8_Witness ==
    /\ pc = "result"
    /\ result.errorInfo.code = "STILL_PROCESSING"
    /\ reported = "RUNNING"

\* C9: when the attempt of a model ended with STILL_PROCESSING, the response
\* to the user names STILL_PROCESSING or tells that trying again later may
\* succeed.
C9_StillProcessingReachesUser ==
    pc = "done" /\ result.errorInfo.code = "STILL_PROCESSING" =>
        \/ response.errorInfo.code = "STILL_PROCESSING"
        \/ includes(response.message, "Try again later.")

\* C10: a status query that raises a transport error consumes exactly one
\* retry; with budget left the poller waits and queries the same job again,
\* without budget the attempt ends as STILL_PROCESSING; the error is not the
\* attempt's result.
C10_TransportErrorSwallowed ==
    [][ Query(StatusTransportError) =>
           IF JsLt(Num(polls + 1), job.maxRetries)
           THEN /\ pc' = "poll"
                /\ polls' = polls + 1
                /\ job' = [job EXCEPT !.retries = job.retries + 1]
                /\ result' = NoResult
           ELSE /\ pc' = "result"
                /\ result'.errorInfo.code = "STILL_PROCESSING" ]_vars

\* a job whose every query so far raised a transport error is queried again
C10_Witness == pc = "poll" /\ polls >= 2 /\ reported = "none"

\* the steps that post a submission answered by resp
Submitted(resp) == \E s \in Seeds : Submit(s, resp)
SubmitRejections ==
    { resp \in SubmitResponses : resp.kind = "body" /\ resp.error.code # "" }
SubmitsWithoutTaskId ==
    { resp \in SubmitResponses :
          resp.kind = "body" /\ resp.error.code = "" /\ ~resp.hasTaskId }
\* the attempt is over without a job: nothing was queried or downloaded
EndedWithoutJob ==
    /\ pc' = "result"
    /\ ~hadJob' /\ job' = NoJob
    /\ polls' = 0 /\ downloads' = 0

C12_DownloadOnlyAfterSuccessWithUrl ==
    /\ [](/\ (pc = "download" =>
                 /\ downloads = 0
                 /\ reported = "SUCCEEDED"
                 /\ job.taskStatus = "SUCCEEDED"
                 /\ job.lastApiResponse.kind = "body"
                 /\ job.lastApiResponse.task_status = "SUCCEEDED"
                 /\ job.lastApiResponse.hasUrl)
          /\ downloads <= 1
          /\ (downloads = 1 => pc = "result" /\ reported = "SUCCEEDED"))
    /\ [][ /\ (Download(FALSE) =>
                  /\ pc' = "result"
                  /\ result'.errorInfo.code = "IMAGE_DOWNLOAD_ERROR"
                  /\ result'.imageData = PLACEHOLDER_PNG)
           /\ (pc = "result" /\ downloads = 1 =>
                  /\ pc' = "returned"
                  /\ result' = result
                  /\ netCalls' = netCalls) ]_vars

\* the download of a succeeded job failed
C12_Witness ==
    /\ pc = "result" /\ downloads = 1
    /\ result.errorInfo.code = "IMAGE_DOWNLOAD_ERROR"

\* C13: a status response that reports SUCCEEDED without a result URL ends
\* the attempt with the result NO_IMAGE_URL, and no download is made for it.
C13_SucceededWithoutUrl ==
    /\ [](pc = "result" /\ result.errorInfo.code = "NO_IMAGE_URL" =>
              downloads = 0 /\ reported = "SUCCEEDED")
    /\ [][ Query(StatusBody("SUCCEEDED", NoError, FALSE)) =>
              /\ pc' = "result"
              /\ result'.errorInfo.code = "NO_IMAGE_URL"
              /\ result'.imageData = PLACEHOLDER_PNG
              /\ downloads' = 0 ]_vars

\* a query of a job reported SUCCEEDED without URL
C13_Witness ==
    /\ pc = "result" /\ hadJob /\ reported = "SUCCEEDED"
    /\ result.errorInfo.code = "NO_IMAGE_URL"
    /\ downloads = 0

\* a result of generateAliyunImage is the downloaded image without errorInfo,
\* or the placeholder with an errorInfo of non-empty code and message
ResultAsData(r) ==
    IF r.errorInfo = NoError
    THEN r.imageData = DATA_URL_PNG
    ELSE /\ r.errorInfo.code # ""
         /\ r.errorInfo.message # <<>>
         /\ r.imageData = PLACEHOLDER_PNG

\* C14: whatever the backend answers, every attempt and generateAliyunImage
\* end with a result object (an image, or a failure with an errorInfo of
\* non-empty code), every step of an attempt leads to a further step of it or
\* to its result, and the tool answers with success:false and an errorInfo of
\* non-empty code exactly when no candidate produced an image.
C14_FailuresAreData ==
    /\ [](/\ (pc \in {"result", "returned"} => ResultAsData(result))
          /\ \A i \in 1..Len(allErrors) :
                 /\ allErrors[i].error.code # ""
                 /\ allErrors[i].error.message # <<>>
          /\ (pc = "done" /\ entry = "tool" =>
                 /\ response.status = 200
                 /\ response.success = (response.errorInfo = NoError)
                 /\ (response.success =>
                        result.errorInfo = NoError /\ response.imageData # NoImage)
                 /\ (~response.success =>
                        /\ response.errorInfo.code # ""
                        /\ response.message # <<>>)))
    /\ [][ /\ (pc \in {"attempt", "poll", "download"} =>
                  pc' \in {"poll", "download", "result"})
           /\ (pc = "result" => pc' \in {"attempt", "returned"})
           /\ (pc = "returned" /\ entry = "tool" => pc' \in {"attempt", "done"}) ]_vars

\* the tool failed on two candidates, one by a transport error of the
\* submission, one by a failed download
C14_Witness ==
    /\ FinalToolFailure
    /\ \E i \in 1..Len(response.allErrors) :
           response.allErrors[i].error.code = "ECONNABORTED"
    /\ \E i \in 1..Len(response.allErrors) :
           response.allErrors[i].error.code = "IMAGE_DOWNLOAD_ERROR"

\* the text d starts with "data:image" and goes on after it
IsDataImageUrl(d) == Len(d) > 1 /\ d[1] = "data:image"

\* C15: when the first three status responses of a job are PENDING, RUNNING
\* and SUCCEEDED with a result URL, the image is downloaded, and once it is
\* downloaded the result of the attempt and of generateAliyunImage has no
\* errorInfo and image data starting with "data:image"; the generateImage
\* tool then answers success:true with that model and image data starting
\* with "data:image".
C15_HappyPath ==
    /\ [](trail = 3 =>
             /\ pc \in {"download", "result", "returned", "done"}
             /\ (pc = "result" => downloads = 1)
             /\ (pc # "download" /\ result.errorInfo.code # "IMAGE_DOWNLOAD_ERROR" =>
                    /\ result.errorInfo = NoError
                    /\ IsDataImageUrl(result.imageData)
                    /\ result.model = ModelOf(params)
                    /\ (pc = "done" /\ entry = "tool" =>
                           /\ response.success
                           /\ response.errorInfo = NoError
                           /\ IsDataImageUrl(response.imageData)
                           /\ response.model = result.model)))
    /\ [][ trail = 3 /\ Download(TRUE) =>
              /\ pc' = "result"
              /\ result'.errorInfo = NoError
              /\ IsDataImageUrl(result'.imageData) ]_vars

\* the tool answered after a job that reported PENDING, RUNNING, SUCCEEDED
C15_Witness ==
    /\ pc = "done" /\ entry = "tool" /\ trail = 3
    /\ response.success

\* C16: the composite failure of the tool has code SERVER_MODEL_ERROR and the
\* message about a server-side problem when some entry of allErrors has code
\* InternalError.Algo and a message containing 'Expected all tensors to be on
\* the same device', and code ALL_MODELS_FAILED when no entry has.
C16_ServerModelErrorIffTensorError ==
    FinalToolFailure =>
        LET tensorSeen ==
                \E i \in 1..Len(response.allErrors) :
                    /\ response.allErrors[i].error.code = "InternalError.Algo"
                    /\ \E k \in 1..Len(response.allErrors[i].error.message) :
                           response.allErrors[i].error.message[k] =
                               "Expected all tensors to be on the same device"
        IN  IF tensorSeen
            THEN /\ response.errorInfo.code = "SERVER_MODEL_ERROR"
                 /\ \E k \in 1..Len(response.message) :
                        response.message[k] =
                            "This is a server-side problem, not an issue with your prompt. "
                 /\ response.errorInfo.message = response.message
            ELSE /\ response.errorInfo.code = "ALL_MODELS_FAILED"
                 /\ response.message =
                        <<"Failed to generate image with all available models.">>

\* one candidate failed with the tensor-device error, another one otherwise
C16_Witness ==
    /\ FinalToolFailure
    /\ response.errorInfo.code = "SERVER_MODEL_ERROR"
    /\ \E i \in 1..Len(response.allErrors) :
           response.allErrors[i].error.code = "NO_TASK_ID"

\* the candidate list the claim gives a request for `model`
NamedOrDefaults(model) ==
    IF model = NoModel THEN <<FluxSchnell>> \o wanxModels
    ELSE IF model = WanxLiteral /\ wanxModels # <<>> THEN <<wanxModels[1]>>
    ELSE <<model>>

\* C17: the tool's candidate list is fixed by the request: the model the
\* request names alone ('Wanx' standing for the first configured Wanx model,
\* if there is one), or else the default Flux model followed by the configured
\* Wanx models in their order; the list never changes afterwards and only its
\* models are attempted, in its order.
C17_CandidateListFromRequest ==
    /\ [][ /\ \A size \in SizeInputs, model \in ModelInputs :
                  ToolRequest(size, model) /\ pc' # "done" =>
                      /\ modelsToTry' = NamedOrDefaults(model)
                      /\ params'.model = NamedOrDefaults(model)[1]
           /\ (pc # "idle" => modelsToTry' = modelsToTry) ]_vars
    /\ [](entry = "tool" =>
             /\ Len(attempted) <= Len(modelsToTry)
             /\ attempted = SubSeq(modelsToTry, 1, Len(attempted))
             /\ (pc \in {"attempt", "poll", "download", "result", "returned"} =>
                    params.model = modelsToTry[idx]))

\* the one model of the request failed and no other was tried, although two
\* Wanx models are configured
C17_Witness ==
    /\ FinalToolFailure
    /\ modelsToTry = <<WanxTurbo>>
    /\ attempted = <<WanxTurbo>>
    /\ Len(wanxModels) = 2

DoneStates == {"DONE_SUCCESS", "DONE_FAILURE", "DONE_TIMEOUT"}
InAttempt == pc \in {"attempt", "poll", "download", "result"}

\* C18: the phases of an attempt begin with SUBMITTING; POLLING follows
\* SUBMITTING only, DOWNLOADING follows POLLING only, DONE_SUCCESS follows
\* DOWNLOADING only, DONE_TIMEOUT follows POLLING only, nothing follows a
\* DONE state, and the attempt has its result exactly when its last phase is
\* the DONE state of that result, which no later step changes.
C18_AttemptStateMachine ==
    /\ [](InAttempt =>
             /\ Len(phases) >= 1
             /\ phases[1] = "SUBMITTING"
             /\ \A i \in 2..Len(phases) :
                    /\ phases[i] # "SUBMITTING"
                    /\ phases[i - 1] \notin DoneStates
                    /\ (phases[i] = "POLLING" => phases[i - 1] = "SUBMITTING")
                    /\ (phases[i] = "DOWNLOADING" => phases[i - 1] = "POLLING")
                    /\ (phases[i] = "DONE_SUCCESS" => phases[i - 1] = "DOWNLOADING")
                    /\ (phases[i] = "DONE_TIMEOUT" => phases[i - 1] = "POLLING")
             /\ (pc = "attempt" => phases = <<"SUBMITTING">>)
             /\ (pc = "poll" => phases[Len(phases)] = "POLLING")
             /\ (pc = "download" => phases[Len(phases)] = "DOWNLOADING")
             /\ (pc = "result" <=> phases[Len(phases)] \in DoneStates)
             /\ (pc = "result" =>
                    /\ (phases[Len(phases)] = "DONE_SUCCESS"
                           <=> result.errorInfo = NoError)
                    /\ (phases[Len(phases)] = "DONE_TIMEOUT"
                           <=> result.errorInfo.code = "STILL_PROCESSING")))
    /\ [][ pc = "result" =>
              /\ result' = result
              /\ pc' \in {"attempt", "returned"} ]_vars

\* an attempt went through every phase up to DONE_SUCCESS
C18_Witness ==
    /\ pc = "result"
    /\ phases = <<"SUBMITTING", "POLLING", "DOWNLOADING", "DONE_SUCCESS">>

\* C19: a request works on one job at a time: a job is live only while it is
\* polled or downloaded, a submission is posted only when no job is live, a
\* resubmission only once the previous attempt returned its result, and the
\* next candidate only once generateAliyunImage returned for the previous one
\* and its error was recorded.
C19_OneJobAtATime ==
    /\ [](/\ (job # NoJob <=> pc \in {"poll", "download"})
          /\ (job # NoJob => job.modelName = ModelOf(params))
          /\ (pc = "attempt" =>
                 /\ polls = 0 /\ downloads = 0
                 /\ (submits > 0 =>
                        /\ result # NoResult
                        /\ result.model = ModelOf(params))
                 /\ (submits = 0 => result = NoResult)
                 /\ (entry = "tool" => Len(allErrors) = idx - 1)))
    /\ [][ /\ (submits' = submits + 1 =>
                  pc = "attempt" /\ job = NoJob)
           /\ (attempted' # attempted =>
                  /\ pc = "attempt" /\ submits = 0 /\ result = NoResult
                  /\ attempted' = Append(attempted, ModelOf(params)))
           /\ (pc \in {"poll", "download"} =>
                  submits' = submits /\ attempted' = attempted) ]_vars

\* the second candidate is being polled after the first was resubmitted and
\* failed
C19_Witness ==
    /\ pc = "poll" /\ entry = "tool"
    /\ idx = 2 /\ Len(allErrors) = 1
    /\ isTensorError(allErrors[1].error)
    /\ job # NoJob

\* C20: for every interleaving of two concurrent requests, each request goes
\* through the submissions, polls and resubmissions, and ends with the result,
\* of the same request served alone and given the same backend responses: its
\* poll retry counter, its transient-fault retry counter and its error list
\* are its own; and the model-config registry, the only shared state, is not
\* written while a request runs.
InFlight(i) == calls[i].pc \notin {"idle", "done"}
C20_RequestsIsolated ==
    /\ [](\A i \in Requests : Assemble(i) = alone[i])
    /\ [][(\E i \in Requests : InFlight(i)) => registry' = registry]_vars

\* both requests are in flight, the first polling its resubmitted job after
\* one query, the second about to resubmit for the second time
C20_Witness ==
    /\ calls[1].pc = "poll"
    /\ store.retries[RetriesScope(1)] = 1
    /\ store.internalErrorRetryCount[CounterScope(1)] = 1
    /\ calls[2].pc = "attempt"
    /\ store.internalErrorRetryCount[CounterScope(2)] = 2

\* C21: the tool's size validation depends only on the requested
\* (width, height): whatever the model, the configuration and the answers of
\* the backend, a request is refused with INVALID_SIZE when the pair, absent
\* values taken as 1024, is not an allowed size, and accepted otherwise, and
\* the decision is not revised later.
SizeAllowed(size) ==
    << IF size[1] = 0 THEN 1024 ELSE size[1],
       IF size[2] = 0 THEN 1024 ELSE size[2] >> \in availableSizes
C21_SizeDecisionDependsOnSizeOnly ==
    /\ [][\A size \in SizeInputs, model \in ModelInputs :
              ToolRequest(size, model) =>
                  IF SizeAllowed(size)
                  THEN pc' = "attempt" /\ response' = NoResponseYet
                  ELSE pc' = "done" /\ response' = ToolInvalidSize]_vars
    /\ [](entry = "tool" =>
              (response.errorInfo.code = "INVALID_SIZE"
                   <=> requestSize \notin availableSizes))

\* a tool request without width and height was accepted and, after a failed
\* first candidate, answered with an image
C21_Witness ==
    /\ entry = "tool" /\ pc = "done"
    /\ requestSize = << 1024, 1024 >>
    /\ response.success
    /\ idx = 2

\* C22: whether the transient fault leads to a resubmission depends on the
\* poll budget when it is observed: an attempt whose job reported FAILED with
\* the tensor-device signature is followed by a resubmission of the same model
\* when further status queries were permitted, and by the return of the
\* failure, without resubmission, when the fault was seen on the last permitted
\* query.
TransientFaultPolled ==
    /\ pc = "result" /\ hadJob /\ reported = "FAILED"
    /\ isTensorError(result.errorInfo)
    /\ internalErrorRetryCount < MAX_INTERNAL_ERROR_RETRIES
C22_ResubmissionDependsOnPollBudget ==
    [][ /\ (TransientFaultPolled /\ budgetLeft =>
               pc' = "attempt" /\ params' = params)
        /\ (TransientFaultPolled /\ ~budgetLeft => pc' = "returned") ]_vars

\* C23: when the request supplies a seed, the first submission carries exactly
\* that seed; the seed is the number drawn at random only when the request
\* supplies none or when the submission is a resubmission.
C23_SuppliedSeedIsCarried ==
    unit.fn = "attemptGeneration" =>
        IF unit.attempt = 0 /\ unit.seed.given
        THEN unit.number = Num(unit.seed.v)
        ELSE unit.number = Num(unit.drawn) /\ unit.drawn \in Seeds

\* C24: every result of an attempt, and so every result generateAliyunImage
\* returns, has exactly one of two shapes: a 'data:image/png;base64,' data URL
\* without errorInfo, or the fixed placeholder payload with an errorInfo whose
\* code is not empty.
IsPngDataUrl(d) ==
    Len(d) >= 3 /\ d[1] = "data:image" /\ d[2] = "/png;base64,"
SuccessShape(r) == IsPngDataUrl(r.imageData) /\ r.errorInfo = NoError
FailureShape(r) == r.imageData = PLACEHOLDER_PNG /\ r.errorInfo.code # ""
C24_TwoResultShapes ==
    /\ (pc \in {"result", "returned"} => result # NoResult)
    /\ (result # NoResult =>
           /\ SuccessShape(result) \/ FailureShape(result)
           /\ ~(SuccessShape(result) /\ FailureShape(result)))

\* generateAliyunImage returned the placeholder for a job whose budget ran out
C24_Witness ==
    /\ pc = "returned"
    /\ FailureShape(result)
    /\ result.errorInfo.code = "STILL_PROCESSING"

\* C25: for every provider-side fault, the response the generateImage tool
\* finally returns contains an image payload (the placeholder: imageData is
\* not null) together with the error information.
C25_ToolDegradesToPlaceholder ==
    FinalToolFailure =>
        /\ response.imageData # NoImage
        /\ response.errorInfo.code # ""

\* C26: the image-generation route reports isPlaceholder = true exactly when
\* generateAliyunImage returned the placeholder payload for an error other
\* than STILL_PROCESSING, and false for a generated image and for
\* STILL_PROCESSING.
C26_RouteFlagsPlaceholder ==
    entry = "route" /\ pc = "done" =>
        (response.isPlaceholder <=>
            /\ result.imageData = PLACEHOLDER_PNG
            /\ result.errorInfo.code # "STILL_PROCESSING")

\* C27: getAliyunModelConfig gives every model id exactly one policy, by the
\* id's prefix whatever its case: 'wanx' ids get maxRetries 15, timeout 300000
\* and class high_quality whatever RETRY_COUNT and REQUEST_TIMEOUT are; 'flux'
\* ids get the configured retry count and timeout with class fast; every other
\* id gets the configured retry count and timeout with class default.
WanxSpellings == {"wanx", "Wanx", "WANX", "wAnX"}
FluxSpellings == {"flux", "Flux", "FLUX"}
ConfiguredPolicy(class, retryCount, requestTimeout) ==
    [maxRetries |-> getEnvNumber(retryCount, 10),
     requestTimeout |-> getEnvNumber(requestTimeout, 60000),
     type |-> class, provider |-> "aliyun"]
C27_PolicyByPrefix ==
    unit.fn = "getAliyunModelConfig" =>
        unit.config =
            IF unit.modelId.prefix \in WanxSpellings
            THEN [maxRetries |-> Num(15), requestTimeout |-> Num(300000),
                  type |-> "high_quality", provider |-> "aliyun"]
            ELSE IF unit.modelId.prefix \in FluxSpellings
            THEN ConfiguredPolicy("fast", unit.retryCount, unit.requestTimeout)
            ELSE ConfiguredPolicy("default", unit.retryCount,
                                  unit.requestTimeout)

\* an upper-case Wanx id was given the Wanx policy under RETRY_COUNT 2
C27_Witness ==
    /\ unit.fn = "getAliyunModelConfig"
    /\ unit.modelId = ModelId("WANX", "2.1-T2I-TURBO")
    /\ unit.retryCount = NumberValue(Num(2))
    /\ unit.config.maxRetries = Num(15)
    /\ unit.config.type = "high_quality"

\* C28: after any sequence of registerModelConfigProvider calls,
\* getModelConfig(m, P) is the result of the function most recently registered
\* for P applied to m, and the default policy (maxRetries 10, timeout 60000,
\* class default, provider P) when none was registered for P; and a
\* registration for one provider leaves the lookups of every other provider
\* as they were.
LastRegistered(provider) ==
    LET calls_ == { i \in 1..Len(registrations) :
                        registrations[i][1] = provider }
    IN  IF calls_ = {} THEN "undefined"
        ELSE registrations[CHOOSE i \in calls_ : \A j \in calls_ : j <= i][2]
C28_LookupFollowsLastRegistration ==
    /\ [](unit.fn = "getModelConfig" =>
             unit.config =
                 IF LastRegistered(unit.provider) = "undefined"
                 THEN [maxRetries |-> Num(10), requestTimeout |-> Num(60000),
                       type |-> "default", provider |-> unit.provider]
                 ELSE ApplyConfigFn(LastRegistered(unit.provider),
                                    unit.modelId, unit.retryCount))
    /\ [][\A p \in RegisteringProviders, f \in ConfigFns :
              CallRegister(p, f) =>
                  \A q \in Providers \ {p}, m \in UnitModelIds :
                      lookupModelConfig(registry', m, q,
                                        NumberValue(envRetryCount))
                          = lookupModelConfig(registry, m, q,
                                              NumberValue(envRetryCount))]_vars

\* a lookup for a provider whose function was replaced, after a registration
\* for another provider in between
C28_Witness ==
    /\ unit.fn = "getModelConfig"
    /\ unit.provider = "aliyun"
    /\ unit.modelId = WanxTurbo
    /\ registrations = << <<"aliyun", "getAliyunModelConfig">>,
                          <<"openai", "fixedConfig">>,
                          <<"aliyun", "fixedConfig">> >>
    /\ unit.config = fixedConfig(WanxTurbo)

\* C30: getEnvNumber never returns NaN: for an undefined value, a value that is
\* NaN and a string that is no number it returns the fallback; so the
\* maxRetries and requestTimeout of every policy are numbers.
C30_EnvNumberIsANumber ==
    /\ (unit.fn = "getEnvNumber" =>
           /\ ~unit.number.nan
           /\ (unit.value.type = "undefined" => unit.number = Num(unit.fallback))
           /\ (unit.value.type = "number" /\ unit.value.num.nan =>
                  unit.number = Num(unit.fallback))
           /\ (unit.value.type = "string" /\ ToNumber(unit.value.text).nan =>
                  unit.number = Num(unit.fallback)))
    /\ (unit.fn = "getAliyunModelConfig" =>
           ~unit.config.maxRetries.nan /\ ~unit.config.requestTimeout.nan)

\* C29: when every network call returns or fails, every request ends with a
\* response; for a candidate list of k models it makes at most 4 * k
\* submissions (at most 4 for each candidate, one candidate after the other)
\* and, for each submission, at most maxRetries status queries and at most one
\* download.
Candidates == IF entry = "tool" THEN Len(modelsToTry) ELSE 1
\* an upper bound of the submissions made so far: 4 for every candidate that
\* was left, and those of the candidate being tried
SubmissionsSoFar ==
    4 * (IF submits > 0 THEN Len(attempted) - 1 ELSE Len(attempted)) + submits
C29_TerminatesWithinBounds ==
    /\ [](/\ submits <= 4
          /\ Len(attempted) <= Candidates
          /\ SubmissionsSoFar <= 4 * Candidates
          /\ (pc = "poll" => ~job.maxRetries.nan /\ polls < job.maxRetries.v)
          /\ downloads <= 1)
    /\ [][ /\ (polls' = polls + 1 => polls' < job.maxRetries.v)
           /\ (downloads' = downloads + 1 => downloads = 0) ]_vars
    /\ <>(pc = "done" /\ response # NoResponseYet)

\* the tool answered after the last of two candidates used up its four
\* submissions
C29_Witness ==
    /\ entry = "tool" /\ pc = "done"
    /\ Len(modelsToTry) = 2 /\ Len(allErrors) = 2
    /\ isTensorError(allErrors[1].error)
    /\ isTensorError(allErrors[2].error)

====
